---- MODULE Spec2Model ----
(***************************************************************************)
(* The asynchronous result-correlation path of Search_AI:                  *)
(*   - the callback sink   src/ceo-fetcher/app/api/signalhire/callback     *)
(*   - the server waiter   src/app/api/isv-search/route.ts                 *)
(*   - the browser waiter  src/ceo-fetcher/app/page.tsx                    *)
(*   - the dispatch route  src/unnamed/part_001                            *)
(* Strings the code normalizes or searches are sequences of characters;    *)
(* a falsy string (undefined, null or "") is the empty sequence, the only  *)
(* way the code tells them apart being truthiness.                         *)
(***************************************************************************)
EXTENDS Integers, Sequences, FiniteSets, TLC

(* ------------------------------ bounds -------------------------------- *)
\* callback POSTs delivered to the sink in one run
MaxIngest == 2
\* organic results SerpAPI returns for one query
MaxSerp == 2
\* tick callbacks of the browser waiter that may await their GET at once
MaxInflight == 2
\* pieces a URL handed to normalizeUrl on its own is put together from
MaxTokens == 3
\* companies in a list handed to the deduplication on its own
MaxList == 3

(* --------------------------- program constants ------------------------ *)
\* while (Date.now() - start < 15000)
TimeoutMs == 15000
\* setTimeout(res, 1500)
PollMs == 1500
\* .slice(0, 3)
TopN == 3
\* setInterval(..., 2000)
PagePollMs == 2000
\* setTimeout(..., 30000)
PageTimeoutMs == 30000

(* ------------------------------ strings ------------------------------- *)
Upper == <<"A","B","C","D","E","F","G","H","I","J","K","L","M",
           "N","O","P","Q","R","S","T","U","V","W","X","Y","Z">>
Lower == <<"a","b","c","d","e","f","g","h","i","j","k","l","m",
           "n","o","p","q","r","s","t","u","v","w","x","y","z">>

\* the characters the strings of the runs are written in
Alphabet ==
    {Upper[i] : i \in 1..Len(Upper)} \cup {Lower[i] : i \in 1..Len(Lower)}
        \cup {":", "/", ".", " "}

\* String.prototype.toLowerCase, character by character
LowerOf ==
    [c \in Alphabet |->
        IF \E i \in 1..Len(Upper) : Upper[i] = c
        THEN Lower[CHOOSE i \in 1..Len(Upper) : Upper[i] = c]
        ELSE c]

LowerChar(c) == LowerOf[c]

toLowerCase(s) == [i \in 1..Len(s) |-> LowerChar(s[i])]

StartsWith(s, p) == Len(s) >= Len(p) /\ SubSeq(s, 1, Len(p)) = p

DropFirst(s, n) == SubSeq(s, n + 1, Len(s))

HTTP == <<"h","t","t","p",":","/","/">>
HTTPS == <<"h","t","t","p","s",":","/","/">>
WWW == <<"w","w","w",".">>

\* .replace(/^https?:\/\//, '')
StripScheme(s) ==
    IF StartsWith(s, HTTP) THEN DropFirst(s, Len(HTTP))
    ELSE IF StartsWith(s, HTTPS) THEN DropFirst(s, Len(HTTPS))
    ELSE s

\* .replace(/^www\./, '')
StripWww(s) == IF StartsWith(s, WWW) THEN DropFirst(s, Len(WWW)) ELSE s

\* .replace(/\/$/, ''): one trailing slash
StripSlash(s) ==
    IF Len(s) > 0 /\ s[Len(s)] = "/" THEN SubSeq(s, 1, Len(s) - 1) ELSE s

normalizeUrl(url) ==
    IF url = <<>> THEN <<>>
    ELSE StripSlash(StripWww(StripScheme(toLowerCase(url))))

\* String.prototype.includes
includes(hay, needle) ==
    \E i \in 0..(Len(hay) - Len(needle)) :
        SubSeq(hay, i + 1, i + Len(needle)) = needle

(* ---------------------------- JSON values ------------------------------ *)
Undefined == [kind |-> "undefined"]
Null == [kind |-> "null"]

\* a || b
Or(a, b) == IF a # "" THEN a ELSE b

Candidate(fullName, headLine, company, website, contacts) ==
    [kind |-> "object", fullName |-> fullName, headLine |-> headLine,
     company |-> company, website |-> website, contacts |-> contacts]

Result(status, item, candidate) ==
    [kind |-> "object", status |-> status, item |-> item, candidate |-> candidate]

Arr(elems) == [kind |-> "array", elems |-> elems]

\* a request body request.json() rejects
Malformed == [kind |-> "malformed"]

\* r.candidate: undefined on anything but a result object (on null the read
\* throws: findThrows)
candidateOf(r) == IF r.kind = "object" THEN r.candidate ELSE Undefined

\* r.status, as the string a comparison with === sees
statusOf(r) == IF r.kind = "object" THEN r.status ELSE "undefined"

(* ------------------------- the data of the runs ----------------------- *)
AcmeCo == <<"a","c","m","e",".","c","o">>
AcmeLink == HTTP \o WWW \o <<"A","c","m","e",".","c","o","/">>
BetaLink == HTTPS \o <<"b","e","t","a",".","i","o">>
AcmeName == <<"A","c","m","e">>
BetaName == <<"B","e","t","a">>
AcmeCorp == <<"A","C","M","E"," ","C","o","r","p">>
OtherInc == <<"O","t","h","e","r">>
Slash == <<"/">>

CandAnn ==
    Candidate("Ann", "CEO", OtherInc, AcmeCo,
              << [type |-> "email", value |-> "ann@acme.co"],
                 [type |-> "phone", value |-> "555"] >>)
CandBob == Candidate("Bob", "", AcmeCorp, Slash, <<>>)
CandEve == Candidate("Eve", "CFO", OtherInc, AcmeCo, <<>>)

ResExact == Result("success", "acme.co", CandAnn)
ResName == Result("success", "acme", CandBob)
ResFailedCand == Result("failed", "acme.co", CandEve)
ResFailed == Result("failed", "nobody.io", Undefined)

\* the bodies SignalHire (or anyone) may POST to the callback route; Null is
\* the JSON text null, which request.json() parses
Payloads ==
    { ResExact, ResName, ResFailedCand, Arr(<<ResFailed, ResExact>>), Null,
      Malformed }

\* organic_results entries of SerpAPI
SerpItems ==
    { [title |-> AcmeName, link |-> AcmeLink],
      [title |-> BetaName, link |-> BetaLink],
      [title |-> BetaName, link |-> HTTPS],
      [title |-> <<>>, link |-> BetaLink] }

SeqsUpTo(S, n) == UNION { [1..k -> S] : k \in 0..n }

SerpLists == SeqsUpTo(SerpItems, MaxSerp)

\* the pieces of the URLs normalizeUrl is applied to on its own
NormTokens == { HTTP, <<"H","T","T","P","S",":","/","/">>, WWW, <<"a">>, Slash }

RECURSIVE Concat(_, _)
\* the string a sequence of pieces spells, from piece i on
Concat(pieces, i) ==
    IF i > Len(pieces) THEN <<>> ELSE pieces[i] \o Concat(pieces, i + 1)

NormInputs == { Concat(pieces, 1) : pieces \in SeqsUpTo(NormTokens, MaxTokens) }

\* the companies of the lists the deduplication is applied to on its own: two
\* that share a normalized website, one with another, one whose website
\* normalizes to the empty string
DedupeItems ==
    { [name |-> AcmeName, website |-> AcmeLink],
      [name |-> AcmeCorp, website |-> AcmeCo],
      [name |-> BetaName, website |-> BetaLink],
      [name |-> BetaName, website |-> HTTPS] }

DedupeInputs == SeqsUpTo(DedupeItems, MaxList)

(* ------------------------------ state --------------------------------- *)
VARIABLES
    responses,   \* callback/route.ts: let responses
    ipc,         \* per callback POST: "idle", "json", "write", "done"
    body,        \* per callback POST: the body delivered, until the handler returns
    delivered,   \* history: how many POSTs delivered each body so far
    istatus,     \* per callback POST: the HTTP status answered (0: none yet)
    wpc,         \* enrichWithSignalHire: "idle","dispatch","fetch","sleep","done","rejected"
                 \* ("threw": an exception left the function; the code never does)
    company,     \* enrichWithSignalHire: its argument
    dispatchRes, \* status of the dispatch response on its way to the waiter (0: none)
    elapsed,     \* Date.now() - start
    polls,       \* GETs of the callback route this waiter completed
    allResults,  \* the last snapshot the waiter read
    match,       \* the result of allResults.find
    ceo,         \* let ceo
    ppc,         \* page.tsx handleSubmit: "idle", "dispatch", "returned"
    ceoInfo,     \* page.tsx: useState ceoInfo
    closureCeoInfo, \* the ceoInfo handleSubmit's closure captured
    error,       \* page.tsx: useState error
    loading,     \* page.tsx: useState loading
    intervalOn,  \* pollInterval is set and not cleared
    timeoutOn,   \* the 30 s timer is pending
    inflight,    \* tick callbacks awaiting their GET
    pticks,      \* times the interval fired
    npc,         \* normalizeUrl on its own: "idle", "start", "once", "twice"
    url,         \* its argument
    once,        \* normalizeUrl(url)
    twice,       \* normalizeUrl(normalizeUrl(url))
    dpc,         \* the deduplication on its own: "idle", "start", "done"
    resultsIn,   \* searchISVs: results, the list line 78 filters
    uniqueResults \* searchISVs: uniqueResults

sinkVars == <<responses, ipc, body, delivered, istatus>>
waitVars == <<wpc, company, dispatchRes, elapsed, polls, allResults, match, ceo>>
pageVars == <<ppc, ceoInfo, closureCeoInfo, error, loading,
              intervalOn, timeoutOn, inflight, pticks>>
pureVars == <<npc, url, once, twice, dpc, resultsIn, uniqueResults>>
vars == <<responses, ipc, body, delivered, istatus,
          wpc, company, dispatchRes, elapsed, polls, allResults, match, ceo,
          ppc, ceoInfo, closureCeoInfo, error, loading,
          intervalOn, timeoutOn, inflight, pticks,
          npc, url, once, twice, dpc, resultsIn, uniqueResults>>

Ingests == 1..MaxIngest

(* --------------------------- callback sink ---------------------------- *)
\* responses.push(data)
pushMutUnshift(arr, data) == <<data>> \o arr
pushMutAssign(arr, data) == <<data>>
pushMutDrop(arr, data) == arr
push(arr, data) == Append(arr, data)

\* GET: NextResponse.json(responses)
GETMutNewestFirst == [j \in 1..Len(responses) |-> responses[Len(responses) + 1 - j]]
GET == responses

\* a callback POST arrives; requests are numbered in arrival order
Deliver(i, p) ==
    /\ ipc[i] = "idle"
    /\ IF i = 1 THEN TRUE ELSE ipc[i - 1] # "idle"
    /\ ipc' = [ipc EXCEPT ![i] = "json"]
    /\ body' = [body EXCEPT ![i] = p]
    /\ delivered' = [delivered EXCEPT ![p] = @ + 1]
    /\ UNCHANGED <<responses, istatus>>

\* request.json() resolves: the body is JSON text
parsesMutAlways(b) == TRUE
parses(b) == b # Malformed

\* await request.json() settles; on success lines 13-18 run to the next await,
\* on failure the catch answers 500
ParseDone(i) ==
    /\ ipc[i] = "json"
    /\ IF ~parses(body[i])
       THEN /\ ipc' = [ipc EXCEPT ![i] = "done"]
            /\ istatus' = [istatus EXCEPT ![i] = 500]
            /\ body' = [body EXCEPT ![i] = Undefined]
            /\ UNCHANGED responses
       ELSE /\ responses' = push(responses, body[i])
            /\ ipc' = [ipc EXCEPT ![i] = "write"]
            /\ UNCHANGED <<istatus, body>>
    /\ UNCHANGED delivered

\* await writeFile settles: 200 when it resolves, the catch's 500 when it
\* rejects; the handler returns and its data goes out of scope
WriteDone(i, ok) ==
    /\ ipc[i] = "write"
    /\ ipc' = [ipc EXCEPT ![i] = "done"]
    /\ istatus' = [istatus EXCEPT ![i] = IF ok THEN 200 ELSE 500]
    /\ body' = [body EXCEPT ![i] = Undefined]
    /\ UNCHANGED <<responses, delivered>>

SinkInit ==
    /\ responses = <<>>
    /\ ipc = [i \in Ingests |-> "idle"]
    /\ body = [i \in Ingests |-> Undefined]
    /\ delivered = [p \in Payloads |-> 0]
    /\ istatus = [i \in Ingests |-> 0]

(* ------------------------- /api/isv-search ---------------------------- *)
RECURSIVE filterFrom(_, _)
\* .filter(r => r.link && r.title), from item i on
filterFrom(items, i) ==
    IF i > Len(items) THEN <<>>
    ELSE IF items[i].link # <<>> /\ items[i].title # <<>>
         THEN <<items[i]>> \o filterFrom(items, i + 1)
         ELSE filterFrom(items, i + 1)

\* .slice(0, 3)
slice(items) == SubSeq(items, 1, IF Len(items) < TopN THEN Len(items) ELSE TopN)

\* .map(r => ({ name: r.title, website: r.link }))
toCompany(r) == [name |-> r.title, website |-> r.link]

\* the filter callback's guard: !(!norm || seen.has(norm))
keepMutNoEmptyCheck(norm, seen) == norm \notin seen
keepMutNoSeenCheck(norm, seen) == norm # <<>>
keep(norm, seen) == norm # <<>> /\ norm \notin seen

RECURSIVE dedupeFrom(_, _, _)
\* results.filter(...) with the closure's seen set, from item i on
dedupeFrom(results, i, seen) ==
    IF i > Len(results) THEN <<>>
    ELSE LET norm == normalizeUrl(results[i].website) IN
         IF keep(norm, seen)
         THEN <<results[i]>> \o dedupeFrom(results, i + 1, seen \cup {norm})
         ELSE dedupeFrom(results, i + 1, seen)

\* searchISVs, given serpData.organic_results
searchISVs(organic) ==
    LET filtered == slice(filterFrom(organic, 1))
        results == [i \in 1..Len(filtered) |-> toCompany(filtered[i])]
    IN  dedupeFrom(results, 1, {})

(* ------------------------------ matcher ------------------------------- *)
\* first disjunct of the find callback
exactRule(candidate, c) ==
    /\ candidate.website # <<>>
    /\ normalizeUrl(candidate.website) = normalizeUrl(c.website)

\* second disjunct of the find callback
nameRule(candidate, c) ==
    /\ candidate.company # <<>>
    /\ c.name # <<>>
    /\ includes(toLowerCase(candidate.company), toLowerCase(c.name))

\* the callback of allResults.find
matches(r, c) ==
    LET candidate == candidateOf(r) IN
    IF candidate = Undefined THEN FALSE
    ELSE exactRule(candidate, c) \/ nameRule(candidate, c)

RECURSIVE findFrom(_, _, _)
\* Array.prototype.find: the first element the callback accepts, from i on
findMutLast(arr, c, i) ==
    IF \E j \in i..Len(arr) : matches(arr[j], c)
    THEN arr[CHOOSE j \in i..Len(arr) :
                 matches(arr[j], c) /\ \A k \in (j + 1)..Len(arr) : ~matches(arr[k], c)]
    ELSE Undefined
findFrom(arr, c, i) ==
    IF i > Len(arr) THEN Undefined
    ELSE IF matches(arr[i], c) THEN arr[i]
    ELSE findFrom(arr, c, i + 1)

RECURSIVE findThrows(_, _, _)
\* the find callback reads r.candidate of a null entry, a TypeError, before
\* any entry from i on is accepted
findThrows(arr, c, i) ==
    IF i > Len(arr) THEN FALSE
    ELSE IF arr[i] = Null THEN TRUE
    ELSE IF matches(arr[i], c) THEN FALSE
    ELSE findThrows(arr, c, i + 1)

RECURSIVE findContact(_, _, _)
\* contacts.find(c => c.type === type)?.value || 'N/A'
findContact(contacts, type, i) ==
    IF i > Len(contacts) THEN "N/A"
    ELSE IF contacts[i].type = type THEN Or(contacts[i].value, "N/A")
    ELSE findContact(contacts, type, i + 1)

\* the ceo object built from a matched candidate
project(candidate) ==
    [name |-> Or(candidate.fullName, "N/A"),
     title |-> Or(candidate.headLine, "N/A"),
     email |-> findContact(candidate.contacts, "email", 1),
     phone |-> findContact(candidate.contacts, "phone", 1)]

NotFound == [name |-> "Not found", title |-> "", email |-> "", phone |-> ""]
Error == [name |-> "Error", title |-> "", email |-> "", phone |-> ""]

(* --------------------- /api/signalhire/search ------------------------- *)
\* the status the dispatch route answers, given how SignalHire answered it
searchRouteStatus(website, sh) ==
    IF website = <<>> THEN 400
    ELSE IF sh = "accepted" THEN 200
    ELSE 500

\* SignalHire answers 2xx, answers a non-2xx status (500 stands for any, it is
\* passed through), or cannot be reached
ShOutcomes == {"accepted", "refused", "unreachable"}

(* ----------------------- enrichWithSignalHire ------------------------- *)
\* the loop condition
inBudgetMutInclusive(t) == t <= TimeoutMs
inBudget(t) == t < TimeoutMs

\* the catch of lines 53-56: what the waiter returns when anything in the try
\* block throws or rejects
catchMutRethrow == [pc |-> "threw", ceo |-> Null]
catch == [pc |-> "done", ceo |-> Error]

\* POST of /api/isv-search up to the call of enrichWithSignalHire for one of the
\* companies; the waiters Promise.all starts share nothing but the sink they
\* read, and the one followed here is any of them
SearchPOST(organic) ==
    /\ wpc = "idle"
    /\ LET companies == searchISVs(organic) IN
       IF companies = <<>>
       THEN /\ wpc' = "rejected"
            /\ UNCHANGED company
       ELSE /\ wpc' = "dispatch"
            /\ \E k \in 1..Len(companies) : company' = companies[k]
    /\ UNCHANGED <<dispatchRes, elapsed, polls, allResults, match, ceo>>

\* POST of /api/signalhire/search answers the waiter's dispatch request
SearchRoutePOST(sh) ==
    /\ wpc = "dispatch"
    /\ dispatchRes = 0
    /\ dispatchRes' = searchRouteStatus(company.website, sh)
    /\ UNCHANGED <<wpc, company, elapsed, polls, allResults, match, ceo>>

\* await fetch(.../api/signalhire/search) settles: with the route's response,
\* which is not looked at, or by rejecting, which the catch turns into Error
DispatchDone(arrived) ==
    /\ wpc = "dispatch"
    /\ arrived => dispatchRes # 0
    /\ dispatchRes' = 0
    /\ IF arrived
       THEN /\ elapsed' = 0
            /\ wpc' = IF inBudget(0) THEN "fetch" ELSE "done"
            /\ ceo' = IF inBudget(0) THEN Null ELSE NotFound
       ELSE /\ wpc' = catch.pc
            /\ ceo' = catch.ceo
            /\ UNCHANGED elapsed
    /\ UNCHANGED <<company, polls, allResults, match>>

\* what one GET of the callback route may take: it answers at once, or stalls
\* for the waiter's whole budget
Latencies == {0, TimeoutMs}

\* await fetch(.../api/signalhire/callback) and res.json() settle after lat ms
\* (ok is false when either rejects), then the find and the if of lines 28-46;
\* allResults and match are scoped to the iteration and are dropped when it
\* goes on to sleep or to the catch
PollDone(ok, lat) ==
    /\ wpc = "fetch"
    /\ elapsed' = elapsed + lat
    /\ polls' = IF ok THEN polls + 1 ELSE polls
    /\ IF ok /\ ~findThrows(GET, company, 1)
       THEN LET found == findFrom(GET, company, 1) IN
            IF found # Undefined /\ candidateOf(found) # Undefined
            THEN /\ allResults' = GET
                 /\ match' = found
                 /\ ceo' = project(candidateOf(found))
                 /\ wpc' = "done"
            ELSE /\ wpc' = "sleep"
                 /\ UNCHANGED <<allResults, match, ceo>>
       ELSE /\ wpc' = catch.pc
            /\ ceo' = catch.ceo
            /\ UNCHANGED <<allResults, match>>
    /\ UNCHANGED <<company, dispatchRes>>

\* the setTimeout of line 47 fires, then the loop condition and lines 49-52
Wake ==
    /\ wpc = "sleep"
    /\ elapsed' = elapsed + PollMs
    /\ IF inBudget(elapsed')
       THEN /\ wpc' = "fetch"
            /\ UNCHANGED ceo
       ELSE /\ wpc' = "done"
            /\ ceo' = NotFound
    /\ UNCHANGED <<company, dispatchRes, polls, allResults, match>>

WaitInit ==
    /\ wpc = "idle"
    /\ company = Undefined
    /\ dispatchRes = 0
    /\ elapsed = 0
    /\ polls = 0
    /\ allResults = <<>>
    /\ match = Undefined
    /\ ceo = Null

(* --------------------------- page.tsx --------------------------------- *)
TimeoutMessage == "Timeout waiting for results"

\* the URL typed into the form (the input is required)
PageWebsite == AcmeLink

\* times the 2 s interval can fire before the 30 s timer does
MaxTicks == PageTimeoutMs \div PagePollMs

\* handleSubmit up to its first await; the closure keeps the ceoInfo of the
\* render that created it, whatever setCeoInfo does later
Submit ==
    /\ ppc = "idle"
    /\ closureCeoInfo' = ceoInfo
    /\ loading' = TRUE
    /\ error' = ""
    /\ ceoInfo' = Null
    /\ ppc' = "dispatch"
    /\ UNCHANGED <<intervalOn, timeoutOn, inflight, pticks>>

\* await fetch('/api/signalhire/search') settles: lines 35-72, or the catch
PageDispatchDone(arrived, sh) ==
    /\ ppc = "dispatch"
    /\ ppc' = "returned"
    /\ IF arrived /\ searchRouteStatus(PageWebsite, sh) = 200
       THEN /\ intervalOn' = TRUE
            /\ timeoutOn' = TRUE
            /\ UNCHANGED <<error, loading>>
       ELSE /\ error' = "An error occurred"
            /\ loading' = FALSE
            /\ UNCHANGED <<intervalOn, timeoutOn>>
    /\ UNCHANGED <<ceoInfo, closureCeoInfo, inflight, pticks>>

\* the interval fires: the callback runs to its first await
Tick ==
    /\ intervalOn
    /\ pticks < MaxTicks
    /\ inflight < MaxInflight
    /\ pticks' = pticks + 1
    /\ inflight' = inflight + 1
    /\ UNCHANGED <<ppc, ceoInfo, closureCeoInfo, error, loading, intervalOn, timeoutOn>>

\* a tick's fetch and json settle: lines 45-62; a rejection is left unhandled
TickDone(ok) ==
    /\ inflight > 0
    /\ inflight' = inflight - 1
    /\ LET results == GET
           latestResult == results[Len(results)]
       IN  IF /\ ok
              /\ Len(results) > 0
              /\ statusOf(latestResult) = "success"
              /\ candidateOf(latestResult) # Undefined
           THEN /\ ceoInfo' = project(candidateOf(latestResult))
                /\ intervalOn' = FALSE
                /\ loading' = FALSE
           ELSE UNCHANGED <<ceoInfo, intervalOn, loading>>
    /\ UNCHANGED <<ppc, closureCeoInfo, error, timeoutOn, pticks>>

\* the 30 s timer fires: lines 67-71. While the interval runs it has fired
\* all but at most one of its MaxTicks times by then
TimeoutFire ==
    /\ timeoutOn
    /\ intervalOn => pticks >= MaxTicks - 1
    /\ timeoutOn' = FALSE
    /\ intervalOn' = FALSE
    /\ IF closureCeoInfo = Null
       THEN /\ error' = TimeoutMessage
            /\ loading' = FALSE
       ELSE UNCHANGED <<error, loading>>
    /\ UNCHANGED <<ppc, ceoInfo, closureCeoInfo, inflight, pticks>>

PageInit ==
    /\ ppc = "idle"
    /\ ceoInfo = Null
    /\ closureCeoInfo = Null
    /\ error = ""
    /\ loading = FALSE
    /\ intervalOn = FALSE
    /\ timeoutOn = FALSE
    /\ inflight = 0
    /\ pticks = 0

(* ------------------- the pure functions on their own ------------------ *)
\* normalizeUrl applied to url
NormalizeOnce ==
    /\ npc = "start"
    /\ once' = normalizeUrl(url)
    /\ npc' = "once"
    /\ UNCHANGED <<url, twice, dpc, resultsIn, uniqueResults>>

\* normalizeUrl applied to what it returned
NormalizeTwice ==
    /\ npc = "once"
    /\ twice' = normalizeUrl(once)
    /\ npc' = "twice"
    /\ UNCHANGED <<url, once, dpc, resultsIn, uniqueResults>>

\* lines 77-83 applied to results
Dedupe ==
    /\ dpc = "start"
    /\ uniqueResults' = dedupeFrom(resultsIn, 1, {})
    /\ dpc' = "done"
    /\ UNCHANGED <<npc, url, once, twice, resultsIn>>

NormIdle == npc = "idle" /\ url = <<>> /\ once = <<>> /\ twice = <<>>
DedupeIdle == dpc = "idle" /\ resultsIn = <<>> /\ uniqueResults = <<>>

(* --------------------------- specifications --------------------------- *)
Init == SinkInit /\ WaitInit /\ PageInit /\ NormIdle /\ DedupeIdle

\* the sink and the waiter of /api/isv-search
Next ==
    \/ \E i \in Ingests, p \in Payloads : Deliver(i, p) /\ UNCHANGED <<waitVars, pageVars, pureVars>>
    \/ \E i \in Ingests : ParseDone(i) /\ UNCHANGED <<waitVars, pageVars, pureVars>>
    \/ \E i \in Ingests, ok \in BOOLEAN : WriteDone(i, ok) /\ UNCHANGED <<waitVars, pageVars, pureVars>>
    \/ \E organic \in SerpLists : SearchPOST(organic) /\ UNCHANGED <<sinkVars, pageVars, pureVars>>
    \/ \E sh \in ShOutcomes : SearchRoutePOST(sh) /\ UNCHANGED <<sinkVars, pageVars, pureVars>>
    \/ \E arrived \in BOOLEAN : DispatchDone(arrived) /\ UNCHANGED <<sinkVars, pageVars, pureVars>>
    \/ \E ok \in BOOLEAN, lat \in Latencies : PollDone(ok, lat) /\ UNCHANGED <<sinkVars, pageVars, pureVars>>
    \/ Wake /\ UNCHANGED <<sinkVars, pageVars, pureVars>>

Spec == Init /\ [][Next]_vars

\* the waiter's awaits settle and its timer fires
PollStep == \E ok \in BOOLEAN, lat \in Latencies : PollDone(ok, lat) /\ UNCHANGED <<sinkVars, pageVars, pureVars>>
WakeStep == Wake /\ UNCHANGED <<sinkVars, pageVars, pureVars>>

FairSpec == Spec /\ WF_vars(PollStep) /\ WF_vars(WakeStep)

\* the sink and the waiter of the ceo-fetcher page
PageNext ==
    \/ \E i \in Ingests, p \in Payloads : Deliver(i, p) /\ UNCHANGED <<waitVars, pageVars, pureVars>>
    \/ \E i \in Ingests : ParseDone(i) /\ UNCHANGED <<waitVars, pageVars, pureVars>>
    \/ \E i \in Ingests, ok \in BOOLEAN : WriteDone(i, ok) /\ UNCHANGED <<waitVars, pageVars, pureVars>>
    \/ Submit /\ UNCHANGED <<sinkVars, waitVars, pureVars>>
    \/ \E d \in BOOLEAN, sh \in ShOutcomes : PageDispatchDone(d, sh) /\ UNCHANGED <<sinkVars, waitVars, pureVars>>
    \/ Tick /\ UNCHANGED <<sinkVars, waitVars, pureVars>>
    \/ \E ok \in BOOLEAN : TickDone(ok) /\ UNCHANGED <<sinkVars, waitVars, pureVars>>
    \/ TimeoutFire /\ UNCHANGED <<sinkVars, waitVars, pureVars>>

PageSpec == Init /\ [][PageNext]_vars

\* normalizeUrl on every URL of NormInputs
NormInit ==
    /\ SinkInit /\ WaitInit /\ PageInit /\ DedupeIdle
    /\ npc = "start"
    /\ url \in NormInputs
    /\ once = <<>>
    /\ twice = <<>>

NormNext ==
    \/ NormalizeOnce /\ UNCHANGED <<sinkVars, waitVars, pageVars>>
    \/ NormalizeTwice /\ UNCHANGED <<sinkVars, waitVars, pageVars>>

NormSpec == NormInit /\ [][NormNext]_vars

\* the deduplication on every list of DedupeInputs
DedupeInit ==
    /\ SinkInit /\ WaitInit /\ PageInit /\ NormIdle
    /\ dpc = "start"
    /\ resultsIn \in DedupeInputs
    /\ uniqueResults = <<>>

DedupeNext == Dedupe /\ UNCHANGED <<sinkVars, waitVars, pageVars>>

DedupeSpec == DedupeInit /\ [][DedupeNext]_vars

(* ------------------------------ claims -------------------------------- *)
IsPrefix(a, b) == Len(a) <= Len(b) /\ SubSeq(b, 1, Len(a)) = a

Count(seq, v) == Cardinality({j \in 1..Len(seq) : seq[j] = v})

\* C1: the callback sink is append-only: each step leaves the stored sequence a
\* prefix of the new one, so no record is ever removed, reordered or edited,
\* whatever POSTs and GETs interleave.
C1_AppendOnly == [][IsPrefix(responses, responses')]_vars

\* C1 witness: two records are stored, and the waiter has read the sink twice
\* and is between polls.
C1_Witness == Len(responses) = 2 /\ polls >= 2 /\ wpc = "sleep"

\* C2: when no callback POST is still parsing its body, the sink holds exactly
\* one record per well-formed body delivered, each equal to that body: for every
\* body value as many stored copies as POSTs that delivered it, and nothing else.
C2_NoLostIngest ==
    (\A i \in Ingests : ipc[i] # "json") =>
        /\ \A p \in Payloads \ {Malformed} : Count(responses, p) = delivered[p]
        /\ \A j \in 1..Len(responses) : responses[j] \in Payloads \ {Malformed}

\* C2 witness: two POSTs with distinct well-formed bodies overlap, both
\* suspended at their file write, the second stored before the first.
C2_Witness ==
    /\ ipc[1] = "write"
    /\ ipc[2] = "write"
    /\ body[1] # body[2]
    /\ responses = <<body[2], body[1]>>

RECURSIVE flatten(_, _)
\* the result objects a snapshot carries, array bodies spread into their
\* elements, from entry i on
flatten(snapshot, i) ==
    IF i > Len(snapshot) THEN <<>>
    ELSE IF snapshot[i].kind = "array"
         THEN snapshot[i].elems \o flatten(snapshot, i + 1)
         ELSE <<snapshot[i]>> \o flatten(snapshot, i + 1)

\* the success records among them that match company c by either rule
MatchingSuccess(snapshot, c) ==
    LET records == flatten(snapshot, 1) IN
    { records[j] : j \in
        { k \in 1..Len(records) :
            /\ statusOf(records[k]) = "success"
            /\ candidateOf(records[k]) # Undefined
            /\ \/ exactRule(candidateOf(records[k]), c)
               \/ nameRule(candidateOf(records[k]), c) } }

\* C3 (as claimed): whenever the waiter completes a poll while the sink holds a
\* success record matching its query, that poll ends the wait with the
\* candidate of such a record.
C3_ResolvesAtNextPoll ==
    [][(wpc = "fetch" /\ polls' = polls + 1 /\ MatchingSuccess(responses, company) # {})
        => /\ wpc' = "done"
           /\ ceo' \in {project(candidateOf(r)) : r \in MatchingSuccess(responses, company)}]_vars

\* the polls a waiter can make: the budget over the interval, rounded up
MaxPolls == (TimeoutMs + PollMs - 1) \div PollMs

Polling == wpc \in {"fetch", "sleep"}

\* no record the sink holds, hence none it ever held, matches the waiter's query
NeverMatched == \A j \in 1..Len(responses) : ~matches(responses[j], company)

C5_NeverBothOutcomes == ~(ceoInfo # Null /\ error = TimeoutMessage)

\* C6 (as claimed): when the dispatch request settles, rejected or answered
\* with a non-2xx status, the waiter returns the failure at once: it does not
\* start polling and does not report not-found.
C6_DispatchFailureImmediate ==
    [][(wpc = "dispatch" /\ wpc' # "dispatch" /\ dispatchRes \notin 200..299)
        => (wpc' = "done" /\ ceo' = Error)]_vars

\* C7 (as claimed): once a POST whose body is an array of k result objects has
\* been stored, the sink holds the k elements as k consecutive records.
C7_ArraySplit ==
    \A i \in Ingests :
        (ipc[i] \in {"write", "done"} /\ body[i].kind = "array") =>
            \E j \in 1..Len(responses) :
                /\ j + Len(body[i].elems) - 1 <= Len(responses)
                /\ SubSeq(responses, j, j + Len(body[i].elems) - 1) = body[i].elems

\* a record satisfies the exact-website rule or the name-substring rule
SatisfiesRule(r, c) ==
    /\ candidateOf(r) # Undefined
    /\ \/ normalizeUrl(candidateOf(r).website) = normalizeUrl(c.website)
          /\ candidateOf(r).website # <<>>
       \/ /\ candidateOf(r).company # <<>>
          /\ c.name # <<>>
          /\ includes(toLowerCase(candidateOf(r).company), toLowerCase(c.name))

\* C8: the record a resolved waiter matched is the earliest record of the
\* snapshot it read that satisfies either rule, whichever rule that is.
C8_EarliestMatchWins ==
    (wpc = "done" /\ match # Undefined) =>
        \E j \in 1..Len(allResults) :
            /\ allResults[j] = match
            /\ SatisfiesRule(allResults[j], company)
            /\ \A k \in 1..(j - 1) : ~SatisfiesRule(allResults[k], company)

\* C8 witness: the snapshot held a name-only match before an exact-website
\* match, and the waiter resolved with the earlier one.
C8_Witness ==
    /\ wpc = "done"
    /\ Len(allResults) = 2
    /\ match = allResults[1]
    /\ ~exactRule(candidateOf(allResults[1]), company)
    /\ candidateOf(allResults[2]) # Undefined
    /\ exactRule(candidateOf(allResults[2]), company)

\* C9 (as claimed): the record a resolved waiter matched has status success.
C9_OnlySuccessMatches ==
    (wpc = "done" /\ match # Undefined) => statusOf(match) = "success"

Populated(c) == c.name # "" /\ c.title # "" /\ c.email # "" /\ c.phone # ""

\* C11: no fault leaves enrichWithSignalHire: whatever the dispatch request and
\* the polls do (settle, reject, return something the find callback chokes on),
\* it never ends by throwing, and when it returns its ceo is a populated
\* projection of a candidate, the not-found sentinel or the error sentinel.
C11_NoFaultEscapes ==
    /\ wpc # "threw"
    /\ wpc = "done" => (ceo \in {NotFound, Error} \/ Populated(ceo))

\* C11 witness: the sink's first entry is null, the waiter's first poll read it,
\* the find callback threw on it, and the waiter returned the error sentinel.
C11_Witness ==
    /\ wpc = "done"
    /\ ceo = Error
    /\ polls = 1
    /\ Len(responses) > 0
    /\ responses[1] = Null

\* C12: when the backup write of an ingest fails (the POST is answered by the
\* catch after its body was parsed), the record it pushed is in the sink, and
\* no step ever takes a stored record out again, so every later snapshot
\* carries it at the same position.
C12_RetainedOnWriteFailure ==
    [][/\ \A i \in Ingests :
            (ipc[i] = "write" /\ ipc'[i] = "done" /\ istatus'[i] = 500) =>
                \E j \in 1..Len(responses') : responses'[j] = body[i]
       /\ \A j \in 1..Len(responses) :
            j <= Len(responses') /\ responses'[j] = responses[j]]_vars

\* C12 witness: the only ingest so far stored its record and had its backup
\* write fail, and the waiter then matched that record.
C12_Witness ==
    /\ ipc[1] = "done"
    /\ istatus[1] = 500
    /\ ipc[2] = "idle"
    /\ Len(responses) = 1
    /\ wpc = "done"
    /\ match = responses[1]

\* C13 (as claimed): every callback POST whose body is a result object or an
\* array of result objects is answered with HTTP 200, whether or not its
\* backup write succeeds.
C13_ValidAnswered200 ==
    [][\A i \in Ingests :
          (ipc[i] # "done" /\ ipc'[i] = "done" /\ body[i].kind \in {"object", "array"})
              => istatus'[i] = 200]_vars

\* C14: a callback POST whose body is not JSON ends at its parse with the sink
\* as it was; the malformed body is never an entry of the sink nor of a
\* snapshot a waiter read; and every POST whose body parses still has it
\* appended, whatever malformed POSTs came before or overlap it.
C14_MalformedIgnored ==
    [][/\ \A i \in Ingests :
            (ipc[i] = "json" /\ ipc'[i] # "json") =>
                IF body[i] = Malformed
                THEN responses' = responses /\ ipc'[i] = "done"
                ELSE responses' = Append(responses, body[i])
       /\ \A j \in 1..Len(responses') : responses'[j] # Malformed
       /\ \A j \in 1..Len(allResults') : allResults'[j] # Malformed]_vars

\* C14 witness: the first POST was malformed and was turned away, the second
\* one stored its record, and the waiter matched that record.
C14_Witness ==
    /\ delivered[Malformed] = 1
    /\ ipc[1] = "done"
    /\ istatus[1] = 500
    /\ ipc[2] = "write"
    /\ responses = <<body[2]>>
    /\ wpc = "done"
    /\ match = body[2]

\* C15 (as claimed): once the browser waiter has resolved, none of its timers
\* fires any more: the poll interval does not tick and the overall timeout
\* does not go off.
C15_NoTimerAfterExit ==
    [][(ppc = "returned" /\ ceoInfo # Null) =>
          (pticks' = pticks /\ timeoutOn' = timeoutOn)]_vars

\* C16 (as claimed): every record the sink holds with status success carries a
\* candidate, and no record it holds with status failed carries one.
C16_StatusCandidateAgree ==
    LET records == flatten(responses, 1) IN
    \A j \in 1..Len(records) :
        /\ statusOf(records[j]) = "success" => candidateOf(records[j]) # Undefined
        /\ statusOf(records[j]) = "failed" => candidateOf(records[j]) = Undefined

\* C17 (as claimed): normalizeUrl applied to its own result returns that result
\* again, for every URL, and it maps the empty string to itself.
C17_NormalizeIdempotent ==
    /\ npc = "twice" => twice = once
    /\ (npc \in {"once", "twice"} /\ url = <<>>) => once = <<>>

\* the positions of a list that carry the first occurrence of a non-empty
\* normalized website
FirstOfKey(list) ==
    { i \in 1..Len(list) :
        /\ normalizeUrl(list[i].website) # <<>>
        /\ \A j \in 1..(i - 1) :
              normalizeUrl(list[j].website) # normalizeUrl(list[i].website) }

\* the subsequence of a list at the positions K, in the list's order
Restrict(list, K) ==
    LET F[n \in 0..Len(list)] ==
            IF n = 0 THEN <<>>
            ELSE IF n \in K THEN Append(F[n - 1], list[n]) ELSE F[n - 1]
    IN  F[Len(list)]

\* C18: the deduplicated list is the input list restricted, in input order, to
\* the first item of each non-empty normalized website: later items with a key
\* already seen and items whose key normalizes to empty are dropped, and
\* nothing else is.
C18_DedupeStableFirst ==
    dpc = "done" => uniqueResults = Restrict(resultsIn, FirstOfKey(resultsIn))

\* C18 witness: of three companies the first is kept, the second is another
\* company with the first one's key and is dropped, the third has an empty key
\* and is dropped.
C18_Witness ==
    /\ dpc = "done"
    /\ Len(resultsIn) = 3
    /\ resultsIn[1] # resultsIn[2]
    /\ normalizeUrl(resultsIn[1].website) = normalizeUrl(resultsIn[2].website)
    /\ normalizeUrl(resultsIn[3].website) = <<>>
    /\ uniqueResults = <<resultsIn[1]>>

\* the companies a waiter can be started for
Queries == { toCompany(item) : item \in SerpItems }

\* C19: what the find returns for a query on a snapshot it returns on every
\* later snapshot: a step never changes the record found for any query once
\* one is found; and a waiter whose first poll completes on a snapshot in which
\* the find returns a record resolves at that poll with that record, whenever
\* the record was stored.
C19_MatchStable ==
    [][/\ \A c \in Queries :
            (~findThrows(GET, c, 1) /\ findFrom(GET, c, 1) # Undefined) =>
                (~findThrows(GET', c, 1) /\ findFrom(GET', c, 1) = findFrom(GET, c, 1))
       /\ (/\ wpc = "fetch" /\ polls = 0 /\ polls' = 1
           /\ ~findThrows(GET, company, 1)
           /\ findFrom(GET, company, 1) # Undefined) =>
                (/\ wpc' = "done"
                 /\ match' = findFrom(GET, company, 1)
                 /\ ceo' = project(candidateOf(match')))]_vars

\* C19 witness: the waiter resolved on its first poll with the sink's first
\* record, and the sink has since grown by another record that matches the
\* same query.
C19_Witness ==
    /\ wpc = "done"
    /\ polls = 1
    /\ Len(allResults) = 1
    /\ match = allResults[1]
    /\ Len(responses) = 2
    /\ responses[1] = match
    /\ responses[2] # match
    /\ matches(responses[2], company)

====
